---- MODULE Spec2Model ----
(***************************************************************************)
(* Model of estafette-ci-gsuite-syncer.                                    *)
(*                                                                         *)
(*  - gsuiteClient.GetGroupMembers (src/gsuiteClient.go): the dispatcher,  *)
(*    its goroutines, the semaphore channel and the result channel.        *)
(*  - apiClient.SynchronizeGroupsAndMembers (src/apiClient.go, the second  *)
(*    version of the file, lines 307-737): the update pass and the create  *)
(*    pass, with Go's unspecified map iteration order.                     *)
(*  - apiClient.GetOrganizations / GetGroups / GetUsers and GetToken: the  *)
(*    paginated fetches of the registry and the login.                     *)
(*  - gsuiteClient.GetGroups: the directory's groups, filtered by prefix.  *)
(*  - main (src/unnamed/part_000): the steps of one run.                   *)
(*                                                                         *)
(* Strings that the code takes apart (display names, the prefix) are       *)
(* sequences of one-character strings; strings it only compares (emails,   *)
(* provider tags, identifiers) are TLA+ strings.                           *)
(***************************************************************************)
EXTENDS Integers, Sequences, FiniteSets, TLC

VARIABLES
    \* ---- gsuiteClient.GetGroupMembers ----
    gsuiteGroups,      \* the groups argument: a slice of distinct *admin.Group pointers
    semaphore,         \* number of values buffered in the semaphore channel
    resultChannel,     \* values buffered in resultChannel, oldest first
    closed,            \* resultChannel has been closed
    groupMembers,      \* the result map, *admin.Group -> members
    groupMemberCount,  \* the member-count accumulator
    gmPc,              \* position of the calling goroutine
    gmIdx,             \* loop counter of the calling goroutine's current loop
    worker,            \* per dispatched group: the goroutine's position and locals
    gmErr,             \* the named result err of GetGroupMembers
    gmRet,             \* what GetGroupMembers returned: <<>> until it returns
    \* ---- apiClient.SynchronizeGroupsAndMembers ----
    gsuiteGroupPrefix,    \* c.gsuiteGroupPrefix
    groups,               \* the groups argument: the registry's groups, as fetched
    gsuiteGroupMembers,   \* the gsuiteGroupMembers argument: directory group -> members
    registry,             \* the groups the registry holds, by ID
    calls,                \* the create and update requests of this run, in order
    syncPc,               \* position: "update" pass, "create" pass, "done"
    gi,                   \* index of g in the update pass's range over groups
    ggTodo,               \* keys the current range over gsuiteGroupMembers has yet to yield
    ggCur,                \* <<gg>> while inside the range over g.Identities, else <<>>
    ii,                   \* index of i in the range over g.Identities
    hasMatchingGsuiteGroup,
    syncErr,              \* the named result err of SynchronizeGroupsAndMembers
    run,                  \* 1 for the first run, 2 for a second run after a fresh fetch
    registryAfterRun1,    \* the registry as the first run left it
    \* ---- apiClient.GetOrganizations / GetGroups / GetUsers ----
    kind,              \* which of the three fetches runs
    pageNumber,        \* pageNumber
    items,             \* the result slice (organizations, groups, users)
    requested,         \* the page numbers requested so far, in order
    served,            \* what the registry answered to each request, in order
    fetchPc,           \* position: "loop", "returned"
    fetchErr,          \* the error the fetch returned
    \* ---- gsuiteClient.GetGroups, and main handing its result on ----
    dgPrefix,          \* c.gsuiteGroupPrefix of the gsuiteClient
    dgGroups,          \* the named result groups
    nextPageToken,     \* nextPageToken
    listed,            \* resp.Groups of every page received, in order
    dgPc,              \* position: "list", "returned", "members", "fatal"
    dgErr,             \* the error GetGroups returned
    memberFetchInput,  \* the groups main passes to GetGroupMembers
    \* ---- pure functions applied to an input ----
    fnIn,              \* the arguments
    fnOut,             \* <<result>> once the function was applied, else <<>>
    \* ---- the context handed to GetGroupMembers ----
    cancelled,         \* ctx.Done() is closed
    \* ---- main ----
    mainStep,          \* index in the source of the step main is at
    mainState,         \* "running", "fatal" after log.Fatal, "returned"
    started            \* the steps main has called, in order, with what they returned

gmVars == <<gsuiteGroups, semaphore, resultChannel, closed, groupMembers,
            groupMemberCount, gmPc, gmIdx, worker, gmErr, gmRet>>

syncVars == <<gsuiteGroupPrefix, groups, gsuiteGroupMembers, registry, calls,
              syncPc, gi, ggTodo, ggCur, ii, hasMatchingGsuiteGroup, syncErr,
              run, registryAfterRun1>>

regVars == <<kind, pageNumber, items, requested, served, fetchPc, fetchErr>>

dirVars == <<dgPrefix, dgGroups, nextPageToken, listed, dgPc, dgErr, memberFetchInput>>

pureVars == <<fnIn, fnOut>>

ctxVars == <<cancelled>>

mainVars == <<mainStep, mainState, started>>

vars == <<gmVars, syncVars, regVars, dirVars, pureVars, ctxVars, mainVars>>

\* What each part leaves alone.
notGM   == <<syncVars, regVars, dirVars, pureVars, ctxVars, mainVars>>
notSync == <<gmVars, regVars, dirVars, pureVars, ctxVars, mainVars>>
notReg  == <<gmVars, syncVars, dirVars, pureVars, ctxVars, mainVars>>
notDir  == <<gmVars, syncVars, regVars, pureVars, ctxVars, mainVars>>
notPure == <<gmVars, syncVars, regVars, dirVars, ctxVars, mainVars>>
notCtx  == <<gmVars, syncVars, regVars, dirVars, pureVars, mainVars>>
notMain == <<gmVars, syncVars, regVars, dirVars, pureVars, ctxVars>>

----------------------------------------------------------------------------
(* Bounds of the model. *)

\* The source fixes concurrency := 10 (src/gsuiteClient.go:133); the model is
\* parametric in the limit and is checked for small values of it.
concurrency == 2

\* Largest number of directory groups handed to GetGroupMembers.
MaxGroups == 3

\* Largest number of pages the directory serves for one group's members.
MaxPages == 2

\* Largest number of groups the registry holds before the first run.
MaxRegistryGroups == 2

\* Largest number of directory groups in gsuiteGroupMembers.
MaxDirectoryGroups == 2

----------------------------------------------------------------------------
(* Values. *)

NoError == "nil"

\* The error of the failing Members.List call for group g.
ListError(g) == "members.list failed: group " \o ToString(g)

\* The member the directory lists on page p of group g.
Member(g, p) == <<g, p>>

\* The responses Members.List may give for page p of group g: a group without
\* members has one empty page and no next-page token; otherwise page p holds
\* one member, and a next-page token unless it is the last page the directory
\* has (at most MaxPages).
Responses(g, p) ==
    { [members |-> << Member(g, p) >>, nextPageToken |-> t] :
        t \in IF p < MaxPages THEN {"", "next"} ELSE {""} }
    \cup (IF p = 1 THEN { [members |-> <<>>, nextPageToken |-> ""] } ELSE {})

Range(s) == { s[k] : k \in DOMAIN s }

----------------------------------------------------------------------------
(* gsuiteClient.GetGroupMembers *)

\* GetGroupMembers considered alone: SynchronizeGroupsAndMembers is not running.
SyncIdle ==
    /\ gsuiteGroupPrefix = <<>>
    /\ groups = <<>>
    /\ gsuiteGroupMembers = <<>>
    /\ registry = <<>>
    /\ calls = <<>>
    /\ syncPc = "idle"
    /\ gi = 0
    /\ ggTodo = {}
    /\ ggCur = <<>>
    /\ ii = 0
    /\ hasMatchingGsuiteGroup = FALSE
    /\ syncErr = NoError
    /\ run = 0
    /\ registryAfterRun1 = <<>>

\* The registry fetches are not running.
RegIdle ==
    /\ kind = ""
    /\ pageNumber = 0
    /\ items = <<>>
    /\ requested = <<>>
    /\ served = <<>>
    /\ fetchPc = "idle"
    /\ fetchErr = NoError

\* The directory's GetGroups is not running.
DirIdle ==
    /\ dgPrefix = <<>>
    /\ dgGroups = <<>>
    /\ nextPageToken = ""
    /\ listed = <<>>
    /\ dgPc = "idle"
    /\ dgErr = NoError
    /\ memberFetchInput = <<>>

\* No pure function is being applied.
PureIdle ==
    /\ fnIn = <<>>
    /\ fnOut = <<>>

\* The context is context.Background(), or not yet cancelled.
CtxIdle == cancelled = FALSE

\* main considered not running.
MainIdle ==
    /\ mainStep = 0
    /\ mainState = "idle"
    /\ started = <<>>

\* A goroutine not yet started; received is the pages its fetch was served.
IdleWorker ==
    [pc |-> "idle", members |-> <<>>, err |-> NoError, pages |-> 0, received |-> <<>>]

InitGM ==
    /\ \E n \in 0..MaxGroups : gsuiteGroups = [k \in 1..n |-> k]
    /\ semaphore = 0
    /\ resultChannel = <<>>
    /\ closed = FALSE
    /\ groupMembers = <<>>
    /\ groupMemberCount = 0
    /\ gmPc = "dispatch"
    /\ gmIdx = 1
    /\ worker = [k \in DOMAIN gsuiteGroups |-> IdleWorker]
    /\ gmErr = NoError
    /\ gmRet = <<>>
    /\ SyncIdle
    /\ RegIdle
    /\ DirIdle
    /\ PureIdle
    /\ CtxIdle
    /\ MainIdle

\* Dispatch without the send on the semaphore: goroutines start unthrottled.
DispatchWithoutSemaphore ==
    /\ gmPc = "dispatch"
    /\ gmIdx <= Len(gsuiteGroups)
    /\ worker' = [worker EXCEPT ![gmIdx].pc = "fetching"]
    /\ gmIdx' = gmIdx + 1
    /\ UNCHANGED <<gsuiteGroups, semaphore, resultChannel, closed, groupMembers,
                   groupMemberCount, gmPc, gmErr, gmRet>>
    /\ UNCHANGED notGM

\* for _, group := range groups { semaphore <- true; go func(...){...}(ctx, semaphore, group) }
\* The send blocks while the channel holds cap(semaphore) values.
Dispatch ==
    /\ gmPc = "dispatch"
    /\ gmIdx <= Len(gsuiteGroups)
    /\ semaphore < concurrency
    /\ semaphore' = semaphore + 1
    /\ worker' = [worker EXCEPT ![gmIdx].pc = "fetching"]
    /\ gmIdx' = gmIdx + 1
    /\ UNCHANGED <<gsuiteGroups, resultChannel, closed, groupMembers,
                   groupMemberCount, gmPc, gmErr, gmRet>>
    /\ UNCHANGED notGM

\* The range loop over groups is exhausted: go on to the fill loop.
DispatchDone ==
    /\ gmPc = "dispatch"
    /\ gmIdx > Len(gsuiteGroups)
    /\ gmPc' = "fill"
    /\ gmIdx' = 0
    /\ UNCHANGED <<gsuiteGroups, semaphore, resultChannel, closed, groupMembers,
                   groupMemberCount, worker, gmErr, gmRet>>
    /\ UNCHANGED notGM

\* getGroupMembersPage that returns nil members beside an error.
FetchPageDroppingMembers(w) ==
    /\ worker[w].pc = "fetching"
    /\ LET g == gsuiteGroups[w]
           p == worker[w].pages + 1
       IN  \/ worker' = [worker EXCEPT ![w].pc = "send",
                                       ![w].members = <<>>,
                                       ![w].err = ListError(g)]
           \/ \E resp \in Responses(g, p) :
                worker' = [worker EXCEPT
                    ![w].members = worker[w].members \o resp.members,
                    ![w].pages = p,
                    ![w].received = Append(worker[w].received, resp),
                    ![w].pc = IF resp.nextPageToken = "" THEN "send"
                                                         ELSE "fetching"]
    /\ UNCHANGED <<gsuiteGroups, semaphore, resultChannel, closed, groupMembers,
                   groupMemberCount, gmPc, gmIdx, gmErr, gmRet>>
    /\ UNCHANGED notGM

\* getGroupMembersPage, one iteration of its loop:
\*   resp, err := listCall.Do(); if err != nil { return members, err }
\*   members = append(members, resp.Members...)
\*   if resp.NextPageToken == "" { break }
FetchPage(w) ==
    /\ worker[w].pc = "fetching"
    /\ LET g == gsuiteGroups[w]
           p == worker[w].pages + 1
       IN  \/ worker' = [worker EXCEPT ![w].pc = "send",
                                       ![w].err = ListError(g)]
           \/ \E resp \in Responses(g, p) :
                worker' = [worker EXCEPT
                    ![w].members = worker[w].members \o resp.members,
                    ![w].pages = p,
                    ![w].received = Append(worker[w].received, resp),
                    ![w].pc = IF resp.nextPageToken = "" THEN "send"
                                                         ELSE "fetching"]
    /\ UNCHANGED <<gsuiteGroups, semaphore, resultChannel, closed, groupMembers,
                   groupMemberCount, gmPc, gmIdx, gmErr, gmRet>>
    /\ UNCHANGED notGM

\* SendResult with the goroutine reading the loop variable group instead of
\* its own parameter: it sends whatever group the dispatcher is at.
SendResultLoopVariable(w) ==
    /\ worker[w].pc = "send"
    /\ Len(resultChannel) < Len(gsuiteGroups)
    /\ IF closed
       THEN /\ worker' = [worker EXCEPT ![w].pc = "panic"]
            /\ UNCHANGED resultChannel
       ELSE /\ resultChannel' = Append(resultChannel,
                   [group |-> gsuiteGroups[IF gmPc = "dispatch" /\ gmIdx <= Len(gsuiteGroups)
                                           THEN gmIdx ELSE Len(gsuiteGroups)],
                    members |-> worker[w].members,
                    err |-> worker[w].err])
            /\ worker' = [worker EXCEPT ![w].pc = "release"]
    /\ UNCHANGED <<gsuiteGroups, semaphore, closed, groupMembers,
                   groupMemberCount, gmPc, gmIdx, gmErr, gmRet>>
    /\ UNCHANGED notGM

\* SendResult with the goroutine writing its members into the map and the
\* counter itself, beside the send.
SendResultWritingMap(w) ==
    /\ worker[w].pc = "send"
    /\ Len(resultChannel) < Len(gsuiteGroups)
    /\ IF closed
       THEN /\ worker' = [worker EXCEPT ![w].pc = "panic"]
            /\ UNCHANGED <<resultChannel, groupMembers, groupMemberCount>>
       ELSE /\ resultChannel' = Append(resultChannel,
                   [group |-> gsuiteGroups[w],
                    members |-> worker[w].members,
                    err |-> worker[w].err])
            /\ groupMembers' =
                   [x \in DOMAIN groupMembers \cup {gsuiteGroups[w]} |->
                       IF x = gsuiteGroups[w] THEN worker[w].members ELSE groupMembers[x]]
            /\ groupMemberCount' = groupMemberCount + Len(worker[w].members)
            /\ worker' = [worker EXCEPT ![w].pc = "release"]
    /\ UNCHANGED <<gsuiteGroups, semaphore, closed, gmPc, gmIdx, gmErr, gmRet>>
    /\ UNCHANGED notGM

\* resultChannel <- struct{group, members, err}: the channel has one slot per
\* group, so the send blocks only when it is full; a send on a closed channel
\* panics.
SendResult(w) ==
    /\ worker[w].pc = "send"
    /\ Len(resultChannel) < Len(gsuiteGroups)
    /\ IF closed
       THEN /\ worker' = [worker EXCEPT ![w].pc = "panic"]
            /\ UNCHANGED resultChannel
       ELSE /\ resultChannel' = Append(resultChannel,
                   [group |-> gsuiteGroups[w],
                    members |-> worker[w].members,
                    err |-> worker[w].err])
            /\ worker' = [worker EXCEPT ![w].pc = "release"]
    /\ UNCHANGED <<gsuiteGroups, semaphore, closed, groupMembers,
                   groupMemberCount, gmPc, gmIdx, gmErr, gmRet>>
    /\ UNCHANGED notGM

\* The goroutine that ends without the deferred receive from the semaphore.
ReleaseForgotten(w) ==
    /\ worker[w].pc = "release"
    /\ worker' = [worker EXCEPT ![w].pc = "done"]
    /\ UNCHANGED <<gsuiteGroups, semaphore, resultChannel, closed, groupMembers,
                   groupMemberCount, gmPc, gmIdx, gmErr, gmRet>>
    /\ UNCHANGED notGM

\* defer func() { <-semaphore }()
Release(w) ==
    /\ worker[w].pc = "release"
    /\ semaphore > 0
    /\ semaphore' = semaphore - 1
    /\ worker' = [worker EXCEPT ![w].pc = "done"]
    /\ UNCHANGED <<gsuiteGroups, resultChannel, closed, groupMembers,
                   groupMemberCount, gmPc, gmIdx, gmErr, gmRet>>
    /\ UNCHANGED notGM

\* for i := 0; i < cap(semaphore); i++ { semaphore <- true }
FillSemaphore ==
    /\ gmPc = "fill"
    /\ gmIdx < concurrency
    /\ semaphore < concurrency
    /\ semaphore' = semaphore + 1
    /\ gmIdx' = gmIdx + 1
    /\ UNCHANGED <<gsuiteGroups, resultChannel, closed, groupMembers,
                   groupMemberCount, gmPc, worker, gmErr, gmRet>>
    /\ UNCHANGED notGM

\* close(resultChannel) without the fill loop having completed.
CloseResultsWithoutBarrier ==
    /\ gmPc = "fill"
    /\ closed' = TRUE
    /\ gmPc' = "collect"
    /\ UNCHANGED <<gsuiteGroups, semaphore, resultChannel, groupMembers,
                   groupMemberCount, gmIdx, worker, gmErr, gmRet>>
    /\ UNCHANGED notGM

\* close(resultChannel), once the fill loop has run cap(semaphore) times.
CloseResults ==
    /\ gmPc = "fill"
    /\ gmIdx >= concurrency
    /\ closed' = TRUE
    /\ gmPc' = "collect"
    /\ UNCHANGED <<gsuiteGroups, semaphore, resultChannel, groupMembers,
                   groupMemberCount, gmIdx, worker, gmErr, gmRet>>
    /\ UNCHANGED notGM

\* for r := range resultChannel { ... }, one received value:
\*   if r.err != nil { return groupMembers, err }
\*   groupMembers[r.group] = r.members; groupMemberCount += len(r.members)
\* The err that is returned is the function's named result, which nothing
\* has assigned: the goroutine's "members, err :=" declares its own err.
Collect ==
    /\ gmPc = "collect"
    /\ resultChannel # <<>>
    /\ LET r == Head(resultChannel)
       IN  /\ resultChannel' = Tail(resultChannel)
           /\ IF r.err # NoError
              THEN /\ gmPc' = "done"
                   /\ gmRet' = << [groupMembers |-> groupMembers, err |-> gmErr] >>
                   /\ UNCHANGED <<groupMembers, groupMemberCount>>
              ELSE /\ groupMembers' =
                        [x \in DOMAIN groupMembers \cup {r.group} |->
                            IF x = r.group THEN r.members ELSE groupMembers[x]]
                   /\ groupMemberCount' = groupMemberCount + Len(r.members)
                   /\ UNCHANGED <<gmPc, gmRet>>
    /\ UNCHANGED <<gsuiteGroups, semaphore, closed, gmIdx, worker, gmErr>>
    /\ UNCHANGED notGM

\* The range loop ends when the closed channel is drained; the bare return
\* hands back the named results.
CollectDone ==
    /\ gmPc = "collect"
    /\ resultChannel = <<>>
    /\ closed
    /\ gmPc' = "done"
    /\ gmRet' = << [groupMembers |-> groupMembers, err |-> gmErr] >>
    /\ UNCHANGED <<gsuiteGroups, semaphore, resultChannel, closed, groupMembers,
                   groupMemberCount, gmIdx, worker, gmErr>>
    /\ UNCHANGED notGM

NextGM ==
    \/ Dispatch
    \/ DispatchDone
    \/ \E w \in DOMAIN worker : FetchPage(w)
    \/ \E w \in DOMAIN worker : SendResult(w)
    \/ \E w \in DOMAIN worker : Release(w)
    \/ FillSemaphore
    \/ CloseResults
    \/ Collect
    \/ CollectDone

SpecGM == InitGM /\ [][NextGM]_vars

\* GetGroupMembers with a scheduler that runs a goroutine that can run, and
\* with member fetches that return: while some step is possible, one is taken.
\* Every step of NextGM changes gmProgress: a position, a loop counter, a
\* page count or the length of a channel.
gmProgress ==
    <<gmPc, gmIdx, semaphore, closed, Len(resultChannel),
      [w \in DOMAIN worker |-> <<worker[w].pc, worker[w].pages>>]>>

SpecGMFair == SpecGM /\ WF_gmProgress(NextGM)

\* The caller cancels ctx while GetGroupMembers runs.  Neither the dispatch
\* loop nor the goroutines select on ctx.Done(), and listCall.Do() is called
\* without listCall.Context(ctx): no step of GetGroupMembers reads cancelled.
Cancel ==
    /\ ~cancelled
    /\ gmPc \in {"dispatch", "fill", "collect"}
    /\ cancelled' = TRUE
    /\ UNCHANGED notCtx

NextGMCancel ==
    \/ NextGM
    \/ Cancel

\* GetGroupMembers under a context that its caller may cancel at any moment.
SpecGMCancel == InitGM /\ [][NextGMCancel]_vars

----------------------------------------------------------------------------
(* apiClient.SynchronizeGroupsAndMembers *)

\* const gsuitProviderName = "gsuite"
gsuitProviderName == "gsuite"

\* strings.HasPrefix(s, prefix)
HasPrefix(s, prefix) ==
    /\ Len(prefix) <= Len(s)
    /\ SubSeq(s, 1, Len(prefix)) = prefix

\* The removal of every leading occurrence of the prefix.
RECURSIVE TrimPrefixRepeatedly(_, _)
TrimPrefixRepeatedly(s, prefix) ==
    IF prefix # <<>> /\ HasPrefix(s, prefix)
    THEN TrimPrefixRepeatedly(SubSeq(s, Len(prefix) + 1, Len(s)), prefix)
    ELSE s

\* strings.TrimPrefix(s, prefix)
TrimPrefix(s, prefix) ==
    IF HasPrefix(s, prefix) THEN SubSeq(s, Len(prefix) + 1, Len(s)) ELSE s

\* The email of the k-th directory group: the directory's unique identifier.
Email(k) == <<"group", k>>

\* The values --gsuite-group-prefix takes in the model.
Prefixes == { <<"p">> }

\* The display names the k-th directory group may have: its own letter, with
\* or without the prefix "p" in front.
Letters == <<"a", "b", "c", "d", "e", "f">>

DirectoryNames(k) == { <<"p", Letters[k]>>, <<Letters[k]>> }

\* The member lists of directory groups: none, or one member.
MemberLists == { <<>>, << "m" >> }

Identity(provider, id) == [Provider |-> provider, ID |-> id, Name |-> <<"x">>]

\* The identity references a registry group holds before the first run: none,
\* one for the directory, one with the directory's email under another
\* provider, two for different directory groups, and the same one twice.
IdentityLists ==
    { <<>>,
      << Identity(gsuitProviderName, Email(1)) >>,
      << Identity("other", Email(1)) >>,
      << Identity(gsuitProviderName, Email(1)), Identity(gsuitProviderName, Email(2)) >>,
      << Identity(gsuitProviderName, Email(1)), Identity(gsuitProviderName, Email(1)) >> }

\* The display name every registry group has before the first run.
InitialName == <<"o">>

\* The registry before the first run: group k has ID k.
Registries ==
    UNION { { [k \in 1..n |-> [ID |-> k, Name |-> InitialName, Identities |-> ids[k]]] :
                ids \in [1..n -> IdentityLists] } : n \in 0..MaxRegistryGroups }

\* The directory side: groups 1..n with their distinct emails, each with a
\* display name and a member list.  A map key is a *admin.Group; emails being
\* unique, the record stands for the pointer.
Directories ==
    UNION { { [gg \in { [Email |-> Email(k), Name |-> names[k]] : k \in 1..n } |->
                 members[CHOOSE k \in 1..n : Email(k) = gg.Email]] :
                names \in { f \in [1..n -> UNION { DirectoryNames(k) : k \in 1..n }] :
                              \A k \in 1..n : f[k] \in DirectoryNames(k) },
                members \in [1..n -> MemberLists] } :
            n \in 0..MaxDirectoryGroups }

GMIdle ==
    /\ gsuiteGroups = <<>>
    /\ semaphore = 0
    /\ resultChannel = <<>>
    /\ closed = FALSE
    /\ groupMembers = <<>>
    /\ groupMemberCount = 0
    /\ gmPc = "idle"
    /\ gmIdx = 0
    /\ worker = <<>>
    /\ gmErr = NoError
    /\ gmRet = <<>>

\* The two loops in the other order.
PassOrderCreateFirst == <<"create", "update">>

\* The order of the two loops of SynchronizeGroupsAndMembers in the source:
\* the loop over groups (updates), then the loop over gsuiteGroupMembers
\* (creates).
PassOrder == <<"update", "create">>

\* Where control goes when the loop pc is exhausted.
PassAfter(pc) == IF pc = PassOrder[1] THEN PassOrder[2] ELSE "done"

InitSync ==
    /\ gsuiteGroupPrefix \in Prefixes
    /\ registry \in Registries
    /\ groups = registry
    /\ gsuiteGroupMembers \in Directories
    /\ calls = <<>>
    /\ syncPc = PassOrder[1]
    /\ gi = 1
    /\ ggTodo = DOMAIN gsuiteGroupMembers
    /\ ggCur = <<>>
    /\ ii = 0
    /\ hasMatchingGsuiteGroup = FALSE
    /\ syncErr = NoError
    /\ run = 1
    /\ registryAfterRun1 = <<>>
    /\ GMIdle
    /\ RegIdle
    /\ DirIdle
    /\ PureIdle
    /\ CtxIdle
    /\ MainIdle

\* The error makeRequest returns for a failed request.
RequestError(method, id) == <<"request failed", method, id>>

\* The outcomes of a request: nil, or the request's error.
Outcomes(method, id) == { NoError, RequestError(method, id) }

\* The error check that never returns.
ReturnsOnNothing(e) == FALSE

\* if err != nil { return }
ReturnsOn(e) == e # NoError

\* The identity test without the provider.
IdentityMatchesAnyProvider(i, gg) == i.ID = gg.Email

\* i.Provider == gsuitProviderName && i.ID == gg.Email
IdentityMatches(i, gg) == i.Provider = gsuitProviderName /\ i.ID = gg.Email

\* The test that looks at the first identity only.
MatchesFirstIdentity(g, gg) ==
    g.Identities # <<>> /\ IdentityMatches(g.Identities[1], gg)

\* The test of both passes, over all identities of g.
Matches(g, gg) == \E k \in DOMAIN g.Identities : IdentityMatches(g.Identities[k], gg)

\* A registry that answers 200 to an update and keeps what it had.
RegistryAfterUpdateIgnored(reg, g) == reg

\* What a successful PUT /api/groups/{ID} leaves in the registry.
RegistryAfterUpdate(reg, g) ==
    [id \in DOMAIN reg |-> IF id = g.ID THEN g ELSE reg[id]]

\* What a successful POST /api/groups leaves in the registry: the group under
\* an ID of the registry's choosing.
RegistryAfterCreate(reg, g) ==
    Append(reg, [g EXCEPT !.ID = Len(reg) + 1])

\* for gg := range gsuiteGroupMembers: the map yields its next key, in an
\* order Go leaves unspecified, and the range over g.Identities starts (and
\* ends at once when g has no identities).
RangeGsuiteGroups ==
    /\ syncPc = "update"
    /\ gi <= Len(groups)
    /\ ggCur = <<>>
    /\ \E gg \in ggTodo :
         /\ ggCur' = IF groups[gi].Identities = <<>> THEN <<>> ELSE <<gg>>
         /\ ggTodo' = ggTodo \ {gg}
    /\ ii' = 1
    /\ UNCHANGED <<gsuiteGroupPrefix, groups, gsuiteGroupMembers, registry, calls,
                   syncPc, gi, hasMatchingGsuiteGroup, syncErr, run, registryAfterRun1>>
    /\ UNCHANGED notSync

\* CheckIdentity with the update also writing the directory group's display
\* name into the matching identity reference.
CheckIdentityRenamingReference ==
    /\ syncPc = "update"
    /\ ggCur # <<>>
    /\ LET gg == ggCur[1]
           g  == groups[gi]
           last == ii = Len(g.Identities)
       IN  IF IdentityMatches(g.Identities[ii], gg)
           THEN LET renamed == [g EXCEPT !.Name = TrimPrefix(gg.Name, gsuiteGroupPrefix),
                                          !.Identities[ii].Name = gg.Name]
                IN  /\ hasMatchingGsuiteGroup' = TRUE
                    /\ groups' = [groups EXCEPT ![gi] = renamed]
                    /\ \E e \in Outcomes("PUT", renamed.ID) :
                         /\ calls' = Append(calls, [method |-> "PUT", ID |-> renamed.ID,
                                                    group |-> renamed, err |-> e])
                         /\ syncErr' = e
                         /\ IF ReturnsOn(e)
                            THEN /\ syncPc' = "done"
                                 /\ UNCHANGED <<registry, ii, ggCur>>
                            ELSE /\ registry' = IF e = NoError
                                                THEN RegistryAfterUpdate(registry, renamed)
                                                ELSE registry
                                 /\ ii' = ii + 1
                                 /\ ggCur' = IF last THEN <<>> ELSE ggCur
                                 /\ UNCHANGED syncPc
           ELSE /\ ii' = ii + 1
                /\ ggCur' = IF last THEN <<>> ELSE ggCur
                /\ UNCHANGED <<groups, registry, calls, syncPc,
                               hasMatchingGsuiteGroup, syncErr>>
    /\ UNCHANGED <<gsuiteGroupPrefix, gsuiteGroupMembers, gi, ggTodo,
                   run, registryAfterRun1>>
    /\ UNCHANGED notSync

\* for _, i := range g.Identities, one iteration:
\*   if i.Provider == gsuitProviderName && i.ID == gg.Email {
\*     hasMatchingGsuiteGroup = true
\*     g.Name = strings.TrimPrefix(gg.Name, c.gsuiteGroupPrefix)
\*     err = c.updateGroup(ctx, token, g); if err != nil { return } }
\* After the last identity control is back in the range over the map.
CheckIdentity ==
    /\ syncPc = "update"
    /\ ggCur # <<>>
    /\ LET gg == ggCur[1]
           g  == groups[gi]
           last == ii = Len(g.Identities)
       IN  IF IdentityMatches(g.Identities[ii], gg)
           THEN LET renamed == [g EXCEPT !.Name = TrimPrefix(gg.Name, gsuiteGroupPrefix)]
                IN  /\ hasMatchingGsuiteGroup' = TRUE
                    /\ groups' = [groups EXCEPT ![gi] = renamed]
                    /\ \E e \in Outcomes("PUT", renamed.ID) :
                         /\ calls' = Append(calls, [method |-> "PUT", ID |-> renamed.ID,
                                                    group |-> renamed, err |-> e])
                         /\ syncErr' = e
                         /\ IF ReturnsOn(e)
                            THEN /\ syncPc' = "done"
                                 /\ UNCHANGED <<registry, ii, ggCur>>
                            ELSE /\ registry' = IF e = NoError
                                                THEN RegistryAfterUpdate(registry, renamed)
                                                ELSE registry
                                 /\ ii' = ii + 1
                                 /\ ggCur' = IF last THEN <<>> ELSE ggCur
                                 /\ UNCHANGED syncPc
           ELSE /\ ii' = ii + 1
                /\ ggCur' = IF last THEN <<>> ELSE ggCur
                /\ UNCHANGED <<groups, registry, calls, syncPc,
                               hasMatchingGsuiteGroup, syncErr>>
    /\ UNCHANGED <<gsuiteGroupPrefix, gsuiteGroupMembers, gi, ggTodo,
                   run, registryAfterRun1>>
    /\ UNCHANGED notSync

\* NextGroup with the todo carried out: a group without a matching directory
\* group is deleted from the registry.
NextGroupDeactivating ==
    /\ syncPc = "update"
    /\ gi <= Len(groups)
    /\ ggCur = <<>>
    /\ ggTodo = {}
    /\ gi' = gi + 1
    /\ ggTodo' = DOMAIN gsuiteGroupMembers
    /\ hasMatchingGsuiteGroup' = FALSE
    /\ calls' = IF hasMatchingGsuiteGroup THEN calls
                ELSE Append(calls, [method |-> "DELETE", ID |-> groups[gi].ID,
                                    group |-> groups[gi], err |-> NoError])
    /\ UNCHANGED <<gsuiteGroupPrefix, groups, gsuiteGroupMembers, registry,
                   syncPc, ggCur, ii, syncErr, run, registryAfterRun1>>
    /\ UNCHANGED notSync

\* The range over the map is exhausted: if !hasMatchingGsuiteGroup { /* todo */ },
\* then the next g, with hasMatchingGsuiteGroup := false and a new range.
NextGroup ==
    /\ syncPc = "update"
    /\ gi <= Len(groups)
    /\ ggCur = <<>>
    /\ ggTodo = {}
    /\ gi' = gi + 1
    /\ ggTodo' = DOMAIN gsuiteGroupMembers
    /\ hasMatchingGsuiteGroup' = FALSE
    /\ UNCHANGED <<gsuiteGroupPrefix, groups, gsuiteGroupMembers, registry, calls,
                   syncPc, ggCur, ii, syncErr, run, registryAfterRun1>>
    /\ UNCHANGED notSync

\* The range over groups is exhausted: control leaves the first loop.
UpdatePassDone ==
    /\ syncPc = "update"
    /\ gi > Len(groups)
    /\ syncPc' = PassAfter("update")
    /\ ggTodo' = DOMAIN gsuiteGroupMembers
    /\ syncErr' = IF PassAfter("update") = "done" THEN NoError ELSE syncErr
    /\ UNCHANGED <<gsuiteGroupPrefix, groups, gsuiteGroupMembers, registry, calls,
                   gi, ggCur, ii, hasMatchingGsuiteGroup, run, registryAfterRun1>>
    /\ UNCHANGED notSync

\* newGroup with an identity reference under another provider tag.
NewGroupOtherProvider(gg) ==
    [ID |-> 0,
     Name |-> TrimPrefix(gg.Name, gsuiteGroupPrefix),
     Identities |-> << [Provider |-> "google", ID |-> gg.Email, Name |-> gg.Name] >>]

\* newGroup with the display name left as the directory has it.
NewGroupUnstripped(gg) ==
    [ID |-> 0,
     Name |-> gg.Name,
     Identities |-> << [Provider |-> gsuitProviderName, ID |-> gg.Email, Name |-> gg.Name] >>]

\* newGroup := &contracts.Group{Name: ..., Identities: [{gsuite, gg.Email, gg.Name}]}
\* Its ID is the zero value, written 0.
NewGroup(gg) ==
    [ID |-> 0,
     Name |-> TrimPrefix(gg.Name, gsuiteGroupPrefix),
     Identities |-> << [Provider |-> gsuitProviderName, ID |-> gg.Email, Name |-> gg.Name] >>]

\* The create condition without the member test.
ShouldCreateWithoutMembers(hasMatchingEstafetteGroup, m) == ~hasMatchingEstafetteGroup

\* if !hasMatchingEstafetteGroup && len(m) > 0
ShouldCreate(hasMatchingEstafetteGroup, m) == ~hasMatchingEstafetteGroup /\ Len(m) > 0

\* for gg, m := range gsuiteGroupMembers, one iteration:
\*   hasMatchingEstafetteGroup over all groups and identities;
\*   if !hasMatchingEstafetteGroup && len(m) > 0 { err = c.createGroup(newGroup); if err != nil { return } }
CreateVisit ==
    /\ syncPc = "create"
    /\ \E gg \in ggTodo :
         LET m == gsuiteGroupMembers[gg]
             hasMatchingEstafetteGroup == \E k \in DOMAIN groups : Matches(groups[k], gg)
         IN  /\ ggTodo' = ggTodo \ {gg}
             /\ IF ShouldCreate(hasMatchingEstafetteGroup, m)
                THEN \E e \in Outcomes("POST", 0) :
                       /\ calls' = Append(calls, [method |-> "POST", ID |-> 0,
                                                  group |-> NewGroup(gg), err |-> e])
                       /\ syncErr' = e
                       /\ IF ReturnsOn(e)
                          THEN /\ syncPc' = "done"
                               /\ UNCHANGED registry
                          ELSE /\ registry' = IF e = NoError
                                              THEN RegistryAfterCreate(registry, NewGroup(gg))
                                              ELSE registry
                               /\ UNCHANGED syncPc
                ELSE UNCHANGED <<calls, syncErr, registry, syncPc>>
    /\ UNCHANGED <<gsuiteGroupPrefix, groups, gsuiteGroupMembers, gi, ggCur, ii,
                   hasMatchingGsuiteGroup, run, registryAfterRun1>>
    /\ UNCHANGED notSync

\* The range of the second loop is exhausted: control leaves the loop, and
\* the function returns nil after its last loop.
CreatePassDone ==
    /\ syncPc = "create"
    /\ ggTodo = {}
    /\ syncPc' = PassAfter("create")
    /\ ggTodo' = IF PassAfter("create") = "done" THEN ggTodo ELSE DOMAIN gsuiteGroupMembers
    /\ syncErr' = IF PassAfter("create") = "done" THEN NoError ELSE syncErr
    /\ UNCHANGED <<gsuiteGroupPrefix, groups, gsuiteGroupMembers, registry, calls,
                   gi, ggCur, ii, hasMatchingGsuiteGroup, run, registryAfterRun1>>
    /\ UNCHANGED notSync

NextSync ==
    \/ RangeGsuiteGroups
    \/ CheckIdentity
    \/ NextGroup
    \/ UpdatePassDone
    \/ CreateVisit
    \/ CreatePassDone

\* One run of SynchronizeGroupsAndMembers.
SpecSync == InitSync /\ [][NextSync]_vars

\* A second run after a first one that returned nil: GetGroups fetches the
\* registry's groups afresh, the directory side is unchanged.
SecondRun ==
    /\ syncPc = "done"
    /\ syncErr = NoError
    /\ run = 1
    /\ run' = 2
    /\ registryAfterRun1' = registry
    /\ groups' = registry
    /\ calls' = <<>>
    /\ syncPc' = PassOrder[1]
    /\ gi' = 1
    /\ ggTodo' = DOMAIN gsuiteGroupMembers
    /\ ggCur' = <<>>
    /\ ii' = 0
    /\ hasMatchingGsuiteGroup' = FALSE
    /\ UNCHANGED <<gsuiteGroupPrefix, gsuiteGroupMembers, registry, syncErr>>
    /\ UNCHANGED notSync

NextResync ==
    \/ NextSync
    \/ SecondRun

\* Two runs in succession against a registry that keeps what it is sent.
SpecResync == InitSync /\ [][NextResync]_vars

----------------------------------------------------------------------------
(* gsuiteClient.GetGroups: the directory's groups, page by page, filtered by
   the display-name prefix, and main's hand-over of the result to
   GetGroupMembers. *)

\* The most groups on one page of the directory's listing.
MaxPageLen == 2

\* The most pages the directory's listing has.
MaxDirPages == 2

\* The values of --gsuite-group-prefix: none, one character, two characters.
DirPrefixes == { <<>>, <<"p">>, <<"p", "a">> }

\* The display names of listed groups: starting with "p", with "pa", and not.
GroupNames == { <<"p", "a">>, <<"p">>, <<"a", "p">> }

\* resp.NextPageToken after the n-th page; "" after the last one.
Tokens == <<"t1", "t2", "t3", "t4">>

\* The error of listCall.Do().
ListCallError == "groups.list failed"

RECURSIVE Flatten(_)
Flatten(pages) ==
    IF pages = <<>> THEN <<>> ELSE pages[1].groups \o Flatten(Tail(pages))

\* The groups of all the pages listed so far, in page order.
ListedGroups == Flatten(listed)

\* The pages the directory may answer with after n groups on k pages: at most
\* MaxPageLen groups, each with an email of its own, and a token for the next
\* page unless this is the last one.
PageResponses(n, k) ==
    { [groups |-> [j \in DOMAIN names |-> [Email |-> Email(n + j), Name |-> names[j]]],
       NextPageToken |-> tok] :
         names \in UNION { [1..m -> GroupNames] : m \in 0..MaxPageLen },
         tok \in IF k + 1 < MaxDirPages THEN { "", Tokens[k + 1] } ELSE { "" } }

InitDirGroups ==
    /\ dgPrefix \in DirPrefixes
    /\ dgGroups = <<>>
    /\ nextPageToken = ""
    /\ listed = <<>>
    /\ dgPc = "list"
    /\ dgErr = NoError
    /\ memberFetchInput = <<>>
    /\ GMIdle /\ SyncIdle /\ RegIdle /\ PureIdle /\ CtxIdle /\ MainIdle

\* The filter that keeps every group.
KeepGroupAlways(group, prefix) == TRUE

\* strings.HasPrefix(group.Name, c.gsuiteGroupPrefix)
KeepGroup(group, prefix) == HasPrefix(group.Name, prefix)

\* for _, group := range resp.Groups { if ... { groups = append(groups, group) } }
Kept(respGroups, prefix) == SelectSeq(respGroups, LAMBDA group : KeepGroup(group, prefix))

\* listCall.Do() fails: return groups, err.
ListPageFails ==
    /\ dgPc = "list"
    /\ listed' = Append(listed, [token |-> nextPageToken, groups |-> <<>>,
                                 err |-> ListCallError])
    /\ dgErr' = ListCallError
    /\ dgPc' = "returned"
    /\ UNCHANGED <<dgPrefix, dgGroups, nextPageToken, memberFetchInput>>
    /\ UNCHANGED notDir

\* One round of the loop: the page after nextPageToken is listed, its groups
\* with the prefix are appended, and the loop ends on an empty NextPageToken.
ListPage ==
    /\ dgPc = "list"
    /\ \E resp \in PageResponses(Len(ListedGroups), Len(listed)) :
         /\ listed' = Append(listed, [token |-> nextPageToken, groups |-> resp.groups,
                                      err |-> NoError])
         /\ dgGroups' = dgGroups \o Kept(resp.groups, dgPrefix)
         /\ IF resp.NextPageToken = ""
            THEN dgPc' = "returned" /\ UNCHANGED nextPageToken
            ELSE nextPageToken' = resp.NextPageToken /\ UNCHANGED dgPc
    /\ UNCHANGED <<dgPrefix, dgErr, memberFetchInput>>
    /\ UNCHANGED notDir

\* main: if err != nil { log.Fatal() }
MainFatal ==
    /\ dgPc = "returned"
    /\ dgErr # NoError
    /\ dgPc' = "fatal"
    /\ UNCHANGED <<dgPrefix, dgGroups, nextPageToken, listed, dgErr, memberFetchInput>>
    /\ UNCHANGED notDir

\* main: gsuiteClient.GetGroupMembers(ctx, gsuiteGroups)
MainGetGroupMembers ==
    /\ dgPc = "returned"
    /\ dgErr = NoError
    /\ memberFetchInput' = dgGroups
    /\ dgPc' = "members"
    /\ UNCHANGED <<dgPrefix, dgGroups, nextPageToken, listed, dgErr>>
    /\ UNCHANGED notDir

NextDirGroups ==
    \/ ListPageFails
    \/ ListPage
    \/ MainFatal
    \/ MainGetGroupMembers

SpecDirGroups == InitDirGroups /\ [][NextDirGroups]_vars

----------------------------------------------------------------------------
(* apiClient.GetOrganizations, GetGroups and GetUsers: the registry's paginated
   fetches.  The three are the same loop over their own page getter. *)

\* The page number up to which the model follows a fetch: a fetch that is
\* about to request a page beyond it is not followed further.
MaxPageNumber == 3

\* The most items on one page of the registry.
MaxPageItems == 2

\* The three fetches.
Kinds == { "organizations", "groups", "users" }

\* The j-th item of a page of the registry.
Item(k, page, j) == <<k, page, j>>

\* client.Do(request) fails: a transport error, after pester's retries.
TransportError == "transport error"

\* fmt.Errorf("%v responded with status code %v", uri, response.StatusCode)
StatusError == "responded with status code 500"

\* json.Unmarshal's error on a nil or empty body, and on a body that is not a
\* document of the expected shape.
UnexpectedEndOfJSON == "unexpected end of JSON input"

InvalidJSON == "invalid character"

\* A response body: nil, not JSON, or a document with items and pagination.
NilBody == [type |-> "nil", items |-> <<>>, TotalPages |-> 0]

MalformedBody == [type |-> "malformed", items |-> <<>>, TotalPages |-> 0]

Document(its, total) == [type |-> "json", items |-> its, TotalPages |-> total]

\* What makeRequest returns for GET of a page: nil and the error on a
\* transport error or a status other than 200, the body and nil otherwise.
MakeRequestOutcomes(k, page) ==
    { [body |-> NilBody, err |-> TransportError],
      [body |-> NilBody, err |-> StatusError],
      [body |-> NilBody, err |-> NoError],
      [body |-> MalformedBody, err |-> NoError] }
    \cup { [body |-> Document([j \in 1..n |-> Item(k, page, j)], total), err |-> NoError] :
             n \in 0..MaxPageItems, total \in 0..(MaxPageNumber + 1) }

\* A decoder that takes a nil body for an empty document.
UnmarshalLenient(body) ==
    IF body.type = "malformed"
    THEN [err |-> InvalidJSON, Items |-> <<>>, TotalPages |-> 0]
    ELSE [err |-> NoError, Items |-> body.items, TotalPages |-> body.TotalPages]

\* json.Unmarshal(responseBody, &listResponse)
Unmarshal(body) ==
    CASE body.type = "nil" -> [err |-> UnexpectedEndOfJSON, Items |-> <<>>, TotalPages |-> 0]
      [] body.type = "malformed" -> [err |-> InvalidJSON, Items |-> <<>>, TotalPages |-> 0]
      [] OTHER -> [err |-> NoError, Items |-> body.items, TotalPages |-> body.TotalPages]

\* getOrganizationsPage, getGroupsPage, getUsersPage on the outcome r of
\* getRequest: r.err is assigned and then overwritten by json.Unmarshal's; on
\* an error the named results are returned as they are, nil and zero.
GetPage(r) ==
    LET listResponse == Unmarshal(r.body)
    IN  IF listResponse.err # NoError
        THEN [items |-> <<>>, TotalPages |-> 0, err |-> listResponse.err]
        ELSE [items |-> listResponse.Items, TotalPages |-> listResponse.TotalPages,
              err |-> NoError]

\* The loop's exit test with the comparison made strict.
LastPageStrict(totalPages, n) == totalPages < n

\* if pagination.TotalPages <= pageNumber { break }
LastPage(totalPages, n) == totalPages <= n

\* The increment that skips a page.
NextPageNumberSkipping(n) == n + 2

\* pageNumber++
NextPageNumber(n) == n + 1

InitFetch ==
    /\ kind \in Kinds
    /\ pageNumber = 1
    /\ items = <<>>
    /\ requested = <<>>
    /\ served = <<>>
    /\ fetchPc = "loop"
    /\ fetchErr = NoError
    /\ GMIdle /\ SyncIdle /\ DirIdle /\ PureIdle /\ CtxIdle /\ MainIdle

\* One round of the loop: the page is requested and decoded; on an error the
\* fetch returns what it has and the error, on the last page it returns all
\* and nil, otherwise it goes on with the next page number.
FetchRegistryPage ==
    /\ fetchPc = "loop"
    /\ pageNumber <= MaxPageNumber
    /\ \E r \in MakeRequestOutcomes(kind, pageNumber) :
         LET page == GetPage(r)
         IN  /\ requested' = Append(requested, pageNumber)
             /\ served' = Append(served, [page |-> pageNumber, body |-> r.body, err |-> r.err])
             /\ IF page.err # NoError
                THEN /\ fetchErr' = page.err
                     /\ fetchPc' = "returned"
                     /\ UNCHANGED <<items, pageNumber>>
                ELSE /\ items' = items \o page.items
                     /\ IF LastPage(page.TotalPages, pageNumber)
                        THEN fetchPc' = "returned" /\ UNCHANGED pageNumber
                        ELSE pageNumber' = NextPageNumber(pageNumber) /\ UNCHANGED fetchPc
                     /\ UNCHANGED fetchErr
    /\ UNCHANGED kind
    /\ UNCHANGED notReg

SpecRegFetch == InitFetch /\ [][FetchRegistryPage]_vars

----------------------------------------------------------------------------
(* main: the steps of one run of the program. *)

\* The most items a step of main fetches.
MaxFetched == 1

\* The calls of main, in source order.
Steps ==
    << "apiClient.GetToken",
       "apiClient.GetOrganizations",
       "apiClient.GetGroups",
       "apiClient.GetUsers",
       "NewGsuiteClient",
       "gsuiteClient.GetOrganizations",
       "gsuiteClient.GetGroups",
       "gsuiteClient.GetGroupMembers" >>

\* The error a step returns when it fails.
StepError(step) == "failed: " \o step

\* What a step may return: a result (of which main logs the length) and nil,
\* or an error.
StepOutcomes(step) ==
    { [result |-> n, err |-> NoError] : n \in 0..MaxFetched }
    \cup { [result |-> 0, err |-> StepError(step)] }

InitMain ==
    /\ mainStep = 1
    /\ mainState = "running"
    /\ started = <<>>
    /\ GMIdle /\ SyncIdle /\ RegIdle /\ DirIdle /\ PureIdle /\ CtxIdle

\* The error check that logs and goes on.
LogFatalReturns(err) == FALSE

\* if err != nil { log.Fatal()... }: log.Fatal ends the process.
LogFatal(err) == err # NoError

\* One call of main and the check of its error.
CallStep ==
    /\ mainState = "running"
    /\ mainStep <= Len(Steps)
    /\ \E out \in StepOutcomes(Steps[mainStep]) :
         /\ started' = Append(started, [step |-> Steps[mainStep],
                                        result |-> out.result, err |-> out.err])
         /\ IF LogFatal(out.err)
            THEN mainState' = "fatal" /\ UNCHANGED mainStep
            ELSE mainStep' = mainStep + 1 /\ UNCHANGED mainState
    /\ UNCHANGED notMain

\* The last call has returned: main logs the member counts and returns.
MainReturns ==
    /\ mainState = "running"
    /\ mainStep > Len(Steps)
    /\ mainState' = "returned"
    /\ UNCHANGED <<mainStep, started>>
    /\ UNCHANGED notMain

NextMain ==
    \/ CallStep
    \/ MainReturns

SpecMain == InitMain /\ [][NextMain]_vars

----------------------------------------------------------------------------
(* The match test and the written display name, as functions of their
   arguments. *)

\* The most identity references a registry group holds in SpecMatch.
MaxIdentities == 2

\* The number of distinct directory emails in SpecMatch.
MaxEmails == 3

\* The longest directory display name, and the longest prefix, in SpecTrim.
MaxNameLen == 3

MaxPrefixLen == 2

\* The identity providers of the registry: the directory's, and another one.
Providers == { gsuitProviderName, "other" }

\* Every list of at most MaxIdentities identity references.
AllIdentityLists ==
    UNION { [1..n -> { Identity(pr, Email(e)) : pr \in Providers, e \in 1..MaxEmails }] :
            n \in 0..MaxIdentities }

\* The characters of display names and prefixes.
Chars == { "p", "a" }

\* The strings of at most n characters.
Strings(n) == UNION { [1..k -> Chars] : k \in 0..n }

\* A registry group g and a directory group gg, before the test is run.
InitMatch ==
    /\ \E ids \in AllIdentityLists, e \in 1..MaxEmails :
         fnIn = << [ID |-> 1, Name |-> InitialName, Identities |-> ids],
                   [Email |-> Email(e), Name |-> <<"p", "a">>] >>
    /\ fnOut = <<>>
    /\ GMIdle /\ SyncIdle /\ RegIdle /\ DirIdle /\ CtxIdle /\ MainIdle

\* for _, i := range g.Identities { if ... { hasMatchingGsuiteGroup = true } }
ApplyMatches ==
    /\ fnIn # <<>>
    /\ fnOut = <<>>
    /\ fnOut' = << Matches(fnIn[1], fnIn[2]) >>
    /\ UNCHANGED fnIn
    /\ UNCHANGED notPure

SpecMatch == InitMatch /\ [][ApplyMatches]_vars

\* A directory display name and a prefix, before the name is written.
InitTrim ==
    /\ \E n \in Strings(MaxNameLen), px \in Strings(MaxPrefixLen) : fnIn = << n, px >>
    /\ fnOut = <<>>
    /\ GMIdle /\ SyncIdle /\ RegIdle /\ DirIdle /\ CtxIdle /\ MainIdle

\* g.Name = strings.TrimPrefix(gg.Name, c.gsuiteGroupPrefix)
ApplyTrimPrefix ==
    /\ fnIn # <<>>
    /\ fnOut = <<>>
    /\ fnOut' = << TrimPrefix(fnIn[1], fnIn[2]) >>
    /\ UNCHANGED fnIn
    /\ UNCHANGED notPure

SpecTrim == InitTrim /\ [][ApplyTrimPrefix]_vars

----------------------------------------------------------------------------
(* apiClient.GetToken, as a function of the credentials and of what the login
   request brings. *)

\* The longest client id and client secret.
MaxCredentialLen == 1

\* The tokens a login response may carry; "" when the field is absent.
JWTs == { "", "jwt1", "jwt2" }

NilLoginBody == [type |-> "nil", token |-> ""]

MalformedLoginBody == [type |-> "malformed", token |-> ""]

LoginDocument(t) == [type |-> "json", token |-> t]

\* What postRequest returns for the login: nil and the error on a transport
\* error or a status other than 200, the body and nil otherwise.
LoginOutcomes ==
    { [body |-> NilLoginBody, err |-> TransportError],
      [body |-> NilLoginBody, err |-> StatusError],
      [body |-> NilLoginBody, err |-> NoError],
      [body |-> MalformedLoginBody, err |-> NoError] }
    \cup { [body |-> LoginDocument(t), err |-> NoError] : t \in JWTs }

\* A decoder that takes a nil body for an empty document.
UnmarshalTokenLenient(body) ==
    IF body.type = "malformed"
    THEN [err |-> InvalidJSON, Token |-> ""]
    ELSE [err |-> NoError, Token |-> body.token]

\* json.Unmarshal(responseBody, &tokenResponse)
UnmarshalToken(body) ==
    CASE body.type = "nil" -> [err |-> UnexpectedEndOfJSON, Token |-> ""]
      [] body.type = "malformed" -> [err |-> InvalidJSON, Token |-> ""]
      [] OTHER -> [err |-> NoError, Token |-> body.token]

\* GetToken on the outcome r of postRequest: r.err is assigned and then
\* overwritten by json.Unmarshal's; on an error the named result token is
\* returned as it is, empty.
GetToken(clientID, clientSecret, r) ==
    LET tokenResponse == UnmarshalToken(r.body)
    IN  IF tokenResponse.err # NoError
        THEN [token |-> "", err |-> tokenResponse.err]
        ELSE [token |-> tokenResponse.Token, err |-> NoError]

InitToken ==
    /\ \E id \in Strings(MaxCredentialLen), secret \in Strings(MaxCredentialLen),
          r \in LoginOutcomes :
         fnIn = << id, secret, r >>
    /\ fnOut = <<>>
    /\ GMIdle /\ SyncIdle /\ RegIdle /\ DirIdle /\ CtxIdle /\ MainIdle

\* token, err := apiClient.GetToken(ctx, *clientID, *clientSecret)
ApplyGetToken ==
    /\ fnIn # <<>>
    /\ fnOut = <<>>
    /\ fnOut' = << GetToken(fnIn[1], fnIn[2], fnIn[3]) >>
    /\ UNCHANGED fnIn
    /\ UNCHANGED notPure

SpecToken == InitToken /\ [][ApplyGetToken]_vars

----------------------------------------------------------------------------
(* Properties of GetGroupMembers, checked under SpecGM. *)

\* The goroutines that are inside getGroupMembersPage.
InFlight == { w \in DOMAIN worker : worker[w].pc = "fetching" }

Returned == gmRet # <<>>

SomeFetchFailed == \E w \in DOMAIN worker : worker[w].err # NoError

\* C1: at no instant are more than concurrency member fetches in flight.
C1_ConcurrencyBound == Cardinality(InFlight) <= concurrency

\* C1 witness: the limit is reached while a further group waits to be dispatched.
C1_Witness ==
    /\ Cardinality(InFlight) = concurrency
    /\ gmPc = "dispatch"
    /\ gmIdx <= Len(gsuiteGroups)

\* C2: if the member fetch of some group failed, GetGroupMembers returns a
\* non-nil error.
C2_FailureSurfaces ==
    (Returned /\ SomeFetchFailed) => gmRet[1].err # NoError

\* C3: the result channel is closed, read and the function returns only after
\* every dispatched goroutine has delivered its result and finished; no
\* goroutine sends on the closed channel.
C3_CollectAfterAllDelivered ==
    /\ (closed \/ gmPc \in {"collect", "done"}) =>
           \A w \in DOMAIN worker : worker[w].pc = "done"
    /\ \A w \in DOMAIN worker : worker[w].pc # "panic"

\* C3 witness: the channel is closed holding the results of more groups than
\* the concurrency limit.
C3_Witness ==
    /\ closed
    /\ gmPc = "collect"
    /\ Len(gsuiteGroups) > concurrency
    /\ Len(resultChannel) = Len(gsuiteGroups)

\* C4: when every fetch succeeded, the returned map has exactly the input
\* groups as keys and maps each to the member list its fetch returned.
C4_MapIsFetchResults ==
    (Returned /\ ~SomeFetchFailed) =>
        /\ DOMAIN gmRet[1].groupMembers = Range(gsuiteGroups)
        /\ \A w \in DOMAIN worker :
              gmRet[1].groupMembers[gsuiteGroups[w]] = worker[w].members

\* C4 witness: a failure-free return for more groups than the concurrency
\* limit, with an empty and a two-page member list among the values.
C4_Witness ==
    /\ Returned
    /\ ~SomeFetchFailed
    /\ Len(gsuiteGroups) > concurrency
    /\ \E g, h \in DOMAIN gmRet[1].groupMembers :
          /\ gmRet[1].groupMembers[g] = <<>>
          /\ Len(gmRet[1].groupMembers[h]) = 2

----------------------------------------------------------------------------
(* Properties of SynchronizeGroupsAndMembers, checked under SpecSync (one  *)
(* run) and SpecResync (two runs).  They are stated on the requests the    *)
(* run issued (calls) and on its arguments, in their own terms.            *)

SyncDone == syncPc = "done"

FailureFree == SyncDone /\ syncErr = NoError

DirectoryGroups == DOMAIN gsuiteGroupMembers

\* The indices in calls of the update requests for the registry group id.
UpdatesOf(id) == { k \in DOMAIN calls : calls[k].method = "PUT" /\ calls[k].ID = id }

\* The indices in calls of the create requests.
Creates == { k \in DOMAIN calls : calls[k].method = "POST" }

\* The indices in calls of the create requests for the directory group d.
CreatesOf(d) == { k \in Creates : \E r \in Range(calls[k].group.Identities) : r.ID = d.Email }

\* The identity reference r refers to the directory group d.
RefersTo(r, d) == r.Provider = "gsuite" /\ r.ID = d.Email

\* The positions of r's identity references that refer to d.
RefsTo(g, d) == { k \in DOMAIN g.Identities : RefersTo(g.Identities[k], d) }

\* The directory groups that match the registry group g.
MatchingDirectoryGroups(g) == { d \in DirectoryGroups : RefsTo(g, d) # {} }

\* No registry group handed to the run matches d.
Unmatched(d) == \A k \in DOMAIN groups : RefsTo(groups[k], d) = {}

\* name is n with one leading occurrence of prefix p removed, or n itself
\* when n does not start with p.
IsStripped(name, n, p) ==
    IF \E j \in 0..Len(n) : SubSeq(n, 1, j) = p
    THEN p \o name = n
    ELSE name = n

\* An update request for g carries g's identifier and the stripped display
\* name of a directory group that matches g.
UpdateCarries(k, g) ==
    /\ calls[k].group.ID = g.ID
    /\ \E d \in MatchingDirectoryGroups(g) :
         IsStripped(calls[k].group.Name, d.Name, gsuiteGroupPrefix)

\* C5 as stated: in a failure-free run every registry group gets as many
\* update requests as directory groups match it, each carrying its identifier
\* and the matching directory group's stripped display name.
C5_UpdatePerMatchingGroup ==
    FailureFree =>
        \A gk \in DOMAIN groups :
            /\ Cardinality(UpdatesOf(groups[gk].ID)) =
                   Cardinality(MatchingDirectoryGroups(groups[gk]))
            /\ \A k \in UpdatesOf(groups[gk].ID) : UpdateCarries(k, groups[gk])

\* C5 amended: in a failure-free run every registry group gets one update
\* request per identity reference that refers to a directory group (so as
\* many as matching directory groups when no reference is repeated), each
\* carrying its identifier and that directory group's stripped display name.
C5_UpdatePerMatchingReference ==
    FailureFree =>
        \A gk \in DOMAIN groups :
            LET g == groups[gk]
            IN  /\ \A k \in UpdatesOf(g.ID) : UpdateCarries(k, g)
                /\ \A d \in DirectoryGroups :
                     Cardinality({ k \in UpdatesOf(g.ID) :
                                     IsStripped(calls[k].group.Name, d.Name, gsuiteGroupPrefix) })
                       = Cardinality(RefsTo(g, d))
                /\ (\A d \in DirectoryGroups : Cardinality(RefsTo(g, d)) <= 1) =>
                     Cardinality(UpdatesOf(g.ID)) = Cardinality(MatchingDirectoryGroups(g))

\* C5 witness: a failure-free run in which one registry group is matched by
\* two directory groups and updated twice, and another by one and updated once.
C5_Witness ==
    /\ FailureFree
    /\ \E gk, hk \in DOMAIN groups :
         /\ Cardinality(MatchingDirectoryGroups(groups[gk])) = 2
         /\ Cardinality(UpdatesOf(groups[gk].ID)) = 2
         /\ Len(groups[hk].Identities) = 1
         /\ Cardinality(MatchingDirectoryGroups(groups[hk])) = 1
         /\ Cardinality(UpdatesOf(groups[hk].ID)) = 1

\* C6: a create request is issued for a directory group only if no registry
\* group matches it and it has members, at most once; and in a failure-free
\* run it is issued for every such directory group.
C6_CreateIffUnmatchedWithMembers ==
    /\ \A d \in DirectoryGroups :
         /\ Cardinality(CreatesOf(d)) <= 1
         /\ CreatesOf(d) # {} => (Unmatched(d) /\ Len(gsuiteGroupMembers[d]) > 0)
         /\ FailureFree =>
              ((Unmatched(d) /\ Len(gsuiteGroupMembers[d]) > 0) => CreatesOf(d) # {})
    /\ \A k \in Creates : \E d \in DirectoryGroups : k \in CreatesOf(d)

\* C6 witness: a failure-free run with two unmatched directory groups, of
\* which the one with members was created and the one without was not.
C6_Witness ==
    /\ FailureFree
    /\ \E d, e \in DirectoryGroups :
         /\ Unmatched(d) /\ Len(gsuiteGroupMembers[d]) > 0 /\ CreatesOf(d) # {}
         /\ Unmatched(e) /\ Len(gsuiteGroupMembers[e]) = 0 /\ CreatesOf(e) = {}

\* C7: every group sent in a create request has exactly one identity
\* reference, with provider "gsuite", the directory group's email as ID and
\* its unstripped display name as name, and the stripped display name as
\* its own name.
C7_CreatedGroupShape ==
    \A k \in Creates :
        LET g == calls[k].group
        IN  /\ Len(g.Identities) = 1
            /\ g.Identities[1].Provider = "gsuite"
            /\ \E d \in DirectoryGroups :
                 /\ g.Identities[1].ID = d.Email
                 /\ g.Identities[1].Name = d.Name
                 /\ IsStripped(g.Name, d.Name, gsuiteGroupPrefix)

\* C7 witness: a create request for a directory group whose display name
\* carries the prefix.
C7_Witness ==
    \E k \in Creates :
        /\ calls[k].group.Identities[1].Name # calls[k].group.Name
        /\ calls[k].err = NoError

\* C8 as stated: a second run after an unchanged directory issues no create
\* request and leaves the registry as the first run left it.
C8_SecondRunChangesNothing ==
    (run = 2 /\ FailureFree) =>
        /\ Creates = {}
        /\ registry = registryAfterRun1

\* C8 amended: a second run issues no create request, and leaves the registry
\* as the first run left it except for the display name of a registry group
\* that more than one directory group matches, which is the stripped display
\* name of one of them.
C8_SecondRunIdempotentUpToMultiMatch ==
    /\ run = 2 => Creates = {}
    /\ (run = 2 /\ FailureFree) =>
         /\ DOMAIN registry = DOMAIN registryAfterRun1
         /\ \A id \in DOMAIN registry :
              LET g == registry[id]
                  before == registryAfterRun1[id]
              IN  /\ g.ID = before.ID
                  /\ g.Identities = before.Identities
                  /\ IF Cardinality(MatchingDirectoryGroups(g)) <= 1
                     THEN g.Name = before.Name
                     ELSE \E d \in MatchingDirectoryGroups(g) :
                            IsStripped(g.Name, d.Name, gsuiteGroupPrefix)

\* C8 witness: a failure-free second run over a registry that holds a group
\* the first run created and a group it updated.
C8_Witness ==
    /\ run = 2
    /\ FailureFree
    /\ \E id, jd \in DOMAIN registry :
         /\ registry[id].Identities # <<>>
         /\ registry[id].Identities[1].Name # <<"x">>
         /\ UpdatesOf(id) # {}
         /\ registry[jd].Identities # <<>>
         /\ registry[jd].Identities[1].Name = <<"x">>
         /\ UpdatesOf(jd) # {}

\* C9: a failed request is the last request of the run and its error is what
\* the run returns; a run that returns nil issued only requests that succeeded.
C9_FailFast ==
    /\ \A k \in DOMAIN calls :
         calls[k].err # NoError =>
            /\ k = Len(calls)
            /\ SyncDone
            /\ syncErr = calls[k].err
    /\ FailureFree => \A k \in DOMAIN calls : calls[k].err = NoError

\* C9 witness: a request failed after another had succeeded and while the
\* run still had directory groups to visit.
C9_Witness ==
    /\ Len(calls) >= 2
    /\ calls[Len(calls)].err # NoError
    /\ ggTodo # {}

\* C10: within a run no update request follows a create request.
C10_UpdatesBeforeCreates ==
    \A j, k \in DOMAIN calls :
        (j < k /\ calls[j].method = "POST") => calls[k].method # "PUT"

\* C10 witness: a run that issued an update request and then a create request.
C10_Witness ==
    \E j, k \in DOMAIN calls :
        /\ j < k
        /\ calls[j].method = "PUT"
        /\ calls[k].method = "POST"

\* C11: a registry group that no directory group matches is left alone: no
\* request names it, only update and create requests are ever issued, and its
\* display name stays what it was, in the run's argument and in the registry.
C11_UnmatchedLeftAlone ==
    /\ \A k \in DOMAIN calls : calls[k].method \in {"PUT", "POST"}
    /\ \A gk \in DOMAIN groups :
         MatchingDirectoryGroups(groups[gk]) = {} =>
            /\ \A k \in DOMAIN calls :
                 calls[k].ID # groups[gk].ID /\ calls[k].group.ID # groups[gk].ID
            /\ groups[gk].Name = InitialName
            /\ registry[groups[gk].ID].Name = InitialName

\* C11 witness: a failure-free run over a registry group that holds a
\* directory group's email under another provider, beside one that was updated.
C11_Witness ==
    /\ FailureFree
    /\ \E gk, hk \in DOMAIN groups :
         /\ MatchingDirectoryGroups(groups[gk]) = {}
         /\ \E r \in Range(groups[gk].Identities) :
              \E d \in DirectoryGroups : r.ID = d.Email
         /\ UpdatesOf(groups[hk].ID) # {}

----------------------------------------------------------------------------
(* Properties of the match test, checked under SpecMatch, and of the written
   display name, checked under SpecTrim. *)

\* C12: the match test of a registry group against a directory group is true
\* exactly when one of the group's identity references has provider "gsuite"
\* and the directory group's email as ID; it is false for a group without
\* identities, and false when the email appears under other providers only.
C12_MatchTest ==
    fnOut # <<>> =>
        LET g == fnIn[1]
            d == fnIn[2]
        IN  /\ fnOut[1] = (\E r \in Range(g.Identities) : RefersTo(r, d))
            /\ g.Identities = <<>> => fnOut[1] = FALSE
            /\ (\A r \in Range(g.Identities) : r.ID = d.Email => r.Provider # "gsuite")
                  => fnOut[1] = FALSE

\* C12 witness: the test has said yes to a group whose second reference is the
\* matching one, the first holding the same email under another provider.
C12_Witness ==
    /\ fnOut = << TRUE >>
    /\ Len(fnIn[1].Identities) = 2
    /\ fnIn[1].Identities[1].ID = fnIn[2].Email
    /\ fnIn[1].Identities[1].Provider = "other"
    /\ RefersTo(fnIn[1].Identities[2], fnIn[2])

\* C14: the written display name is the directory name with one leading
\* occurrence of the prefix removed when the name starts with the prefix, and
\* the directory name itself otherwise.
C14_WrittenName ==
    fnOut # <<>> => IsStripped(fnOut[1], fnIn[1], fnIn[2])

\* C14 witness: a name that starts with the prefix twice has lost it once.
C14_Witness ==
    /\ fnIn = << <<"p", "p", "a">>, <<"p">> >>
    /\ fnOut = << <<"p", "a">> >>

----------------------------------------------------------------------------
(* Properties of gsuiteClient.GetGroups, checked under SpecDirGroups. *)

\* The string n starts with the string p.
StartsWith(n, p) == \E j \in 0..Len(n) : SubSeq(n, 1, j) = p

\* The groups of s whose display name starts with the configured prefix.
WithPrefix(s) == SelectSeq(s, LAMBDA d : StartsWith(d.Name, dgPrefix))

\* C13: every group GetGroups returns has a display name that starts with the
\* prefix; the groups returned are the listed groups whose name starts with the
\* prefix, in page order; and the groups handed to GetGroupMembers are the
\* ones GetGroups returned, so none of them lacks the prefix.
C13_OnlyPrefixedGroups ==
    /\ \A k \in DOMAIN dgGroups : StartsWith(dgGroups[k].Name, dgPrefix)
    /\ dgGroups = WithPrefix(ListedGroups)
    /\ \A k \in DOMAIN memberFetchInput : StartsWith(memberFetchInput[k].Name, dgPrefix)
    /\ dgPc = "members" => memberFetchInput = WithPrefix(ListedGroups)

\* C13 witness: two pages were listed, a group without the prefix on the first
\* and one with it on the second, and the result went to GetGroupMembers.
C13_Witness ==
    /\ dgPc = "members"
    /\ Len(listed) = 2
    /\ \E g \in Range(listed[1].groups) : ~StartsWith(g.Name, dgPrefix)
    /\ \E g \in Range(listed[2].groups) : StartsWith(g.Name, dgPrefix)
    /\ dgPrefix # <<>>
    /\ memberFetchInput # <<>>

----------------------------------------------------------------------------
(* Properties of the registry's paginated fetches, checked under
   SpecRegFetch. *)

\* The fetch has returned to its caller.
FetchReturned == fetchPc = "returned"

\* The request for the j-th page of the fetch failed: the request itself, or
\* the body it brought was no document.
PageFailed(j) == served[j].err # NoError \/ served[j].body.type # "json"

\* The items of the first n pages served, in page order.
RECURSIVE ItemsOfPages(_)
ItemsOfPages(n) ==
    IF n = 0 THEN <<>> ELSE ItemsOfPages(n - 1) \o served[n].body.items

\* C15: when no page request fails, the fetch goes on exactly until the first
\* page whose reported total-page-count is at most the page number just
\* fetched, its result is the items of the pages up to that one in page order,
\* and page 1 is requested whatever the total, 0 included.
C15_ConcatenationUpToLastPage ==
    /\ FetchReturned => Len(requested) >= 1 /\ requested[1] = 1
    /\ (\A j \in DOMAIN served : ~PageFailed(j)) =>
          /\ \A j \in DOMAIN served :
               (served[j].body.TotalPages <= served[j].page)
                  <=> (j = Len(served) /\ FetchReturned)
          /\ items = ItemsOfPages(Len(served))
          /\ fetchErr = NoError

\* C15 witness: a fetch has returned the items of two pages, the first page
\* reporting more pages than there were.
C15_Witness ==
    /\ FetchReturned
    /\ fetchErr = NoError
    /\ Len(served) = 2
    /\ served[1].body.TotalPages = 3
    /\ served[1].body.items # <<>>
    /\ served[2].body.items # <<>>
    /\ Len(items) = Len(served[1].body.items) + Len(served[2].body.items)

\* C16: a page request that fails at page j is the fetch's last request, and
\* the fetch returns a non-nil error with the items of pages 1..j-1 in order.
C16_FailureEndsFetch ==
    \A j \in DOMAIN served :
        PageFailed(j) =>
            /\ j = Len(served)
            /\ Len(requested) = j
            /\ FetchReturned
            /\ fetchErr # NoError
            /\ items = ItemsOfPages(j - 1)

\* C16 witness: the request for page 2 failed in transport after page 1 had
\* brought items, and the fetch has returned them.
C16_Witness ==
    /\ FetchReturned
    /\ Len(served) = 2
    /\ served[2].err = "transport error"
    /\ served[1].body.items # <<>>
    /\ items = served[1].body.items

\* C17: the page numbers requested within one fetch are 1, 2, 3, ... in this
\* order: none twice, none skipped.
C17_PageNumbersInSequence ==
    \A j \in DOMAIN requested : requested[j] = j

\* C17 witness: a fetch has requested three pages.
C17_Witness ==
    /\ Len(requested) = 3
    /\ requested[3] = 3
    /\ FetchReturned

\* C18: the fetch is guarded against a total-page-count that is never
\* reached: whatever the pages report, it stops within MaxPageNumber requests
\* and is never about to ask for a page beyond.
C18_BoundedRequests ==
    ~FetchReturned => pageNumber <= MaxPageNumber

\* C19: when the request for a page fails in transport or with a disallowed
\* status code, the error the fetch returns is that request's error.
C19_RequestErrorPropagated ==
    \A j \in DOMAIN served :
        served[j].err # NoError => fetchErr = served[j].err

----------------------------------------------------------------------------
(* Who writes what in GetGroupMembers, checked under SpecGM. *)

\* The goroutine w has taken a step.
WorkerStepped(w) ==
    /\ worker[w].pc \in {"fetching", "send", "release"}
    /\ worker'[w] # worker[w]

\* C20: the map and the member counter change only in a step of the
\* collecting loop, taken after the channel was closed and with every
\* goroutine finished; a step of a goroutine leaves both alone and changes of
\* the shared state nothing, or the result channel by one send, or the
\* semaphore by one release.
C20_SingleWriter ==
    [][ /\ (groupMembers' # groupMembers \/ groupMemberCount' # groupMemberCount) =>
              /\ gmPc = "collect"
              /\ closed
              /\ \A w \in DOMAIN worker : worker[w].pc = "done"
              /\ worker' = worker
        /\ \A w \in DOMAIN worker :
              WorkerStepped(w) =>
                 /\ groupMembers' = groupMembers
                 /\ groupMemberCount' = groupMemberCount
                 /\ UNCHANGED <<closed, gmPc, gmIdx, gmErr, gmRet>>
                 /\ \/ /\ worker[w].pc = "fetching"
                       /\ UNCHANGED <<resultChannel, semaphore>>
                    \/ /\ worker[w].pc = "send"
                       /\ Len(resultChannel') = Len(resultChannel) + 1
                       /\ SubSeq(resultChannel', 1, Len(resultChannel)) = resultChannel
                       /\ semaphore' = semaphore
                       /\ worker'[w].pc = "release"
                    \/ /\ worker[w].pc = "release"
                       /\ semaphore' = semaphore - 1
                       /\ resultChannel' = resultChannel
                       /\ worker'[w].pc = "done"
      ]_vars

\* C20 witness: the collecting loop has written two groups into the map and
\* counted their members, every goroutine having sent and released.
C20_Witness ==
    /\ gmPc = "collect"
    /\ Cardinality(DOMAIN groupMembers) = 2
    /\ groupMemberCount > 0
    /\ Len(gsuiteGroups) > concurrency
    /\ \A w \in DOMAIN worker : worker[w].pc = "done"

----------------------------------------------------------------------------
(* Cancellation of GetGroupMembers, checked under SpecGMCancel. *)

\* The goroutine w receives a further page of members in this step.
ReceivesPage(w) == worker'[w].pages > worker[w].pages

\* The member fetch of w is started in this step.
FetchStarted(w) == worker[w].pc = "idle" /\ worker'[w].pc = "fetching"

\* The goroutine w cannot take its next step.
Blocked(w) ==
    \/ worker[w].pc = "send" /\ Len(resultChannel) >= Len(gsuiteGroups)
    \/ worker[w].pc = "release" /\ semaphore = 0

\* C21: once the context is cancelled, no member fetch receives a further
\* page, no further member fetch is started, and no goroutine is blocked.
C21_CancellationObserved ==
    /\ [](cancelled => \A w \in DOMAIN worker : ~Blocked(w))
    /\ [][cancelled => \A w \in DOMAIN worker : ~ReceivesPage(w) /\ ~FetchStarted(w)]_vars

----------------------------------------------------------------------------
(* Termination of GetGroupMembers, checked under SpecGMFair. *)

\* The steps the goroutine w has yet to take, at most, its send counted
\* twice (the collecting loop takes the value out again).
WorkerRank(w) ==
    CASE worker[w].pc = "idle"     -> 4 + MaxPages
      [] worker[w].pc = "fetching" -> 4 + MaxPages - worker[w].pages
      [] worker[w].pc = "send"     -> 3
      [] worker[w].pc = "release"  -> 1
      [] OTHER                     -> 0

RECURSIVE WorkersRank(_)
WorkersRank(n) == IF n = 0 THEN 0 ELSE WorkersRank(n - 1) + WorkerRank(n)

\* The steps the calling goroutine has yet to take, at most, receives apart.
CallerRank ==
    CASE gmPc = "dispatch" -> (Len(gsuiteGroups) + 1 - gmIdx) + concurrency + 3
      [] gmPc = "fill"     -> (concurrency - gmIdx) + 2
      [] gmPc = "collect"  -> 1
      [] OTHER             -> 0

\* The steps GetGroupMembers has yet to take, at most.
StepsLeft == CallerRank + Len(resultChannel) + WorkersRank(Len(gsuiteGroups))

\* C22: GetGroupMembers is deadlock-free and terminates whatever the number of
\* groups and the interleaving: no goroutine is ever blocked on its send or
\* its release, a step is possible until the function has returned, and every
\* step lowers the natural number StepsLeft, so that a scheduler that runs
\* what can run takes the function to its return.
C22_Terminates ==
    /\ [](\A w \in DOMAIN worker : ~Blocked(w))
    /\ [](~Returned => ENABLED NextGM)
    /\ [](StepsLeft \in Nat)
    /\ [][StepsLeft' < StepsLeft]_vars

\* C22 witness: GetGroupMembers has returned for more groups than the limit,
\* the final fill having taken every slot of the semaphore.
C22_Witness ==
    /\ Returned
    /\ Len(gsuiteGroups) > concurrency
    /\ semaphore = concurrency
    /\ \A w \in DOMAIN worker : worker[w].pc = "done"
    /\ resultChannel = <<>>

----------------------------------------------------------------------------
(* Properties of getGroupMembersPage, checked under SpecGM. *)

\* The members of the given pages, in page order.
RECURSIVE MembersOfPages(_)
MembersOfPages(pages) ==
    IF pages = <<>> THEN <<>> ELSE pages[1].members \o MembersOfPages(Tail(pages))

\* The member fetch of w has returned.
FetchReturnedBy(w) == worker[w].pc \in {"send", "release", "done", "panic"}

\* C23: a member fetch holds the members of the pages it received, in the
\* order received; it asks for a further page only after a page with a
\* next-page token, and returns nil only after a page without one; when a
\* request fails it has returned, with the error and the members of the pages
\* received before.
C23_MembersInPageOrder ==
    \A w \in DOMAIN worker :
        LET rec == worker[w].received
        IN  /\ worker[w].members = MembersOfPages(rec)
            /\ \A k \in 1..(Len(rec) - 1) : rec[k].nextPageToken # ""
            /\ \A k \in DOMAIN rec : rec[k] \in Responses(gsuiteGroups[w], k)
            /\ worker[w].pc = "fetching" =>
                  /\ worker[w].err = NoError
                  /\ rec # <<>> => rec[Len(rec)].nextPageToken # ""
            /\ (FetchReturnedBy(w) /\ worker[w].err = NoError) =>
                  /\ rec # <<>>
                  /\ rec[Len(rec)].nextPageToken = ""
            /\ worker[w].err # NoError =>
                  /\ FetchReturnedBy(w)
                  /\ rec # <<>> => rec[Len(rec)].nextPageToken # ""

\* C23 witness: one fetch has returned the members of two pages, another has
\* failed at its second page and returned the member of its first.
C23_Witness ==
    \E v, w \in DOMAIN worker :
        /\ FetchReturnedBy(v)
        /\ worker[v].err = NoError
        /\ Len(worker[v].received) = 2
        /\ Len(worker[v].members) = 2
        /\ FetchReturnedBy(w)
        /\ worker[w].err # NoError
        /\ Len(worker[w].received) = 1
        /\ Len(worker[w].members) = 1

----------------------------------------------------------------------------
(* Properties of main, checked under SpecMain. *)

\* The order of the steps of a run.
RunOrder ==
    << "apiClient.GetToken", "apiClient.GetOrganizations", "apiClient.GetGroups",
       "apiClient.GetUsers", "NewGsuiteClient", "gsuiteClient.GetOrganizations",
       "gsuiteClient.GetGroups", "gsuiteClient.GetGroupMembers" >>

\* C24: the steps main has called are the first steps of the fixed order, each
\* but the last called having returned without error; when the last one
\* returned an error the process has ended, so that no later step follows,
\* and main returns only after all eight.
C24_SequentialFailFast ==
    /\ Len(started) <= Len(RunOrder)
    /\ \A k \in DOMAIN started : started[k].step = RunOrder[k]
    /\ \A k \in 1..(Len(started) - 1) : started[k].err = NoError
    /\ (started # <<>> /\ started[Len(started)].err # NoError) <=> mainState = "fatal"
    /\ mainState = "returned" => Len(started) = Len(RunOrder)

\* C24 witness: the creation of the directory client failed after four
\* fetches from the registry, and the process has ended.
C24_Witness ==
    /\ mainState = "fatal"
    /\ Len(started) = 5
    /\ started[5].step = "NewGsuiteClient"
    /\ started[3].result = 1

----------------------------------------------------------------------------
(* Properties of GetToken, checked under SpecToken. *)

\* C25: GetToken returns a nil error only when the login request succeeded
\* and its body was a document; when the login request failed, in transport
\* or by its status, it returns a non-nil error and an empty token.
C25_TokenOnlyOnSuccess ==
    fnOut # <<>> =>
        LET r == fnIn[3]
            out == fnOut[1]
        IN  /\ out.err = NoError => r.err = NoError /\ r.body.type = "json"
            /\ r.err # NoError => out.err # NoError /\ out.token = ""

\* C25 witness: the login answered with a disallowed status, and GetToken has
\* returned an error and no token.
C25_Witness ==
    /\ fnOut # <<>>
    /\ fnIn[3].err = "responded with status code 500"
    /\ fnIn[1] # <<>>
    /\ fnOut[1].err # NoError
    /\ fnOut[1].token = ""

----------------------------------------------------------------------------
(* Order of the map iteration, and what an update leaves alone; checked under
   SpecSync. *)

\* The display name of the last update request for the registry group id.
LastUpdateName(id) ==
    LET last == CHOOSE k \in UpdatesOf(id) : \A j \in UpdatesOf(id) : j <= k
    IN  calls[last].group.Name

\* The directory group matching g that a range over the map in ascending
\* order of email yields last.
LastInAscendingOrder(g) ==
    CHOOSE d \in MatchingDirectoryGroups(g) :
        \A e \in MatchingDirectoryGroups(g) : e.Email[2] <= d.Email[2]

\* C26 as stated: the display name a registry group holds after a
\* failure-free run is the same for every iteration order of the map: it is
\* the one the ascending order leaves, whatever order the run took.
C26_OrderIndependent ==
    FailureFree =>
        \A k \in DOMAIN groups :
            LET g == groups[k]
            IN  MatchingDirectoryGroups(g) # {} =>
                   /\ IsStripped(registry[g.ID].Name,
                                 LastInAscendingOrder(g).Name, gsuiteGroupPrefix)
                   /\ LastUpdateName(g.ID) = registry[g.ID].Name

\* C26 amended: after a failure-free run a registry group that exactly one
\* directory group matches holds that group's stripped display name, whatever
\* the iteration order; one that several match holds the stripped display
\* name of one of them, the name of its last update request.
C26_OrderIndependentForSingleMatch ==
    FailureFree =>
        \A k \in DOMAIN groups :
            LET g == groups[k]
                matching == MatchingDirectoryGroups(g)
            IN  matching # {} =>
                   /\ LastUpdateName(g.ID) = registry[g.ID].Name
                   /\ \E d \in matching :
                        IsStripped(registry[g.ID].Name, d.Name, gsuiteGroupPrefix)
                   /\ Cardinality(matching) = 1 =>
                        \A d \in matching :
                            IsStripped(registry[g.ID].Name, d.Name, gsuiteGroupPrefix)

\* C26 witness: a failure-free run has left a registry group that two
\* directory groups match with the name of the one with the smaller email:
\* its map iteration yielded the other one first.
C26_Witness ==
    /\ FailureFree
    /\ \E k \in DOMAIN groups :
         LET g == groups[k]
         IN  /\ Cardinality(MatchingDirectoryGroups(g)) = 2
             /\ ~IsStripped(registry[g.ID].Name,
                            LastInAscendingOrder(g).Name, gsuiteGroupPrefix)
             /\ \E d \in MatchingDirectoryGroups(g) :
                  IsStripped(registry[g.ID].Name, d.Name, gsuiteGroupPrefix)

\* C27: no step of a run changes the identifier or the identity references
\* of a registry group, in the groups passed in or in the registry; an update
\* request carries the identifier and the identity references of the group it
\* is for; and the groups passed in stay as many as they were.
C27_OnlyNameChanges ==
    /\ [](\A k \in DOMAIN groups :
            /\ registry[groups[k].ID].ID = groups[k].ID
            /\ registry[groups[k].ID].Identities = groups[k].Identities)
    /\ [][ /\ Len(groups') = Len(groups)
           /\ \A k \in DOMAIN groups :
                /\ groups'[k].ID = groups[k].ID
                /\ groups'[k].Identities = groups[k].Identities
           /\ \A id \in DOMAIN registry :
                /\ id \in DOMAIN registry'
                /\ registry'[id].ID = registry[id].ID
                /\ registry'[id].Identities = registry[id].Identities
           /\ Len(calls') > Len(calls) =>
                LET c == calls'[Len(calls')]
                IN  c.method = "PUT" =>
                       \E k \in DOMAIN groups :
                           /\ c.ID = groups[k].ID
                           /\ c.group.ID = groups[k].ID
                           /\ c.group.Identities = groups[k].Identities
         ]_vars

\* C27 witness: a failure-free run has renamed a registry group and created
\* another: the registry holds more groups than were passed in.
C27_Witness ==
    /\ FailureFree
    /\ Len(registry) > Len(groups)
    /\ \E k \in DOMAIN groups :
         /\ UpdatesOf(groups[k].ID) # {}
         /\ groups[k].Name # InitialName
         /\ Len(groups[k].Identities) = 2

====
